---------------------------- MODULE Spec2Model ----------------------------
(***************************************************************************)
(* A model of the file upload API of app.py: the extension policy, the     *)
(* name generator, the path resolution of download and delete, and the     *)
(* upload directory they act on.                                           *)
(*                                                                         *)
(* Strings are sequences of one-character strings, so that rsplit, lower,  *)
(* secure_filename, startswith and the f-string of the name generator are  *)
(* computed character by character.  The host is POSIX (os.sep = "/",      *)
(* os.path.altsep = None) and every input is ASCII.                        *)
(***************************************************************************)
EXTENDS Integers, Sequences, FiniteSets, TLC

(***************************************************************************)
(* Bounds of the model.                                                    *)
(***************************************************************************)
\* the upload handler stores a new file only while fewer are stored
MaxFiles == 2
\* uuid4()[:8] is drawn among this many identifiers
NumUuids == 2
\* longest base part of the filenames given to the name generator alone
MaxNameLen == 4

(***************************************************************************)
(* Characters.                                                             *)
(***************************************************************************)
UpperSeq ==
    <<"A","B","C","D","E","F","G","H","I","J","K","L","M",
      "N","O","P","Q","R","S","T","U","V","W","X","Y","Z">>

LowerSeq ==
    <<"a","b","c","d","e","f","g","h","i","j","k","l","m",
      "n","o","p","q","r","s","t","u","v","w","x","y","z">>

DigitSeq == <<"0","1","2","3","4","5","6","7","8","9">>

HexSeq == DigitSeq \o <<"a","b","c","d","e","f">>

Range(s) == {s[i] : i \in 1..Len(s)}

Whitespace == {" "}

\* the lower-case letter of each upper-case letter
LowerOf == [c \in Range(UpperSeq) |-> LowerSeq[CHOOSE i \in 1..26 : UpperSeq[i] = c]]

\* str.lower() on one character
to_lower(c) == IF c \in DOMAIN LowerOf THEN LowerOf[c] ELSE c

\* str.lower()
lower(s) == [i \in 1..Len(s) |-> to_lower(s[i])]

\* '.' in filename
has_dot(s) == \E i \in 1..Len(s) : s[i] = "."

\* the index of the last '.', where rsplit('.', 1) splits
last_dot(s) == CHOOSE i \in 1..Len(s) : s[i] = "." /\ \A j \in (i+1)..Len(s) : s[j] # "."

\* filename.rsplit('.', 1)[0]
rsplit_head(s) == SubSeq(s, 1, last_dot(s) - 1)

\* filename.rsplit('.', 1)[1]
rsplit_tail(s) == SubSeq(s, last_dot(s) + 1, Len(s))

\* str.startswith
startswith(s, prefix) ==
    /\ Len(prefix) <= Len(s)
    /\ SubSeq(s, 1, Len(prefix)) = prefix

\* str.lstrip(chars)
lstrip(s, chars) ==
    LET first == CHOOSE i \in 1..(Len(s) + 1) :
                     /\ i = Len(s) + 1 \/ s[i] \notin chars
                     /\ \A j \in 1..(i - 1) : s[j] \in chars
    IN  SubSeq(s, first, Len(s))

\* str.rstrip(chars)
rstrip(s, chars) ==
    LET n == Len(s)
        cut == CHOOSE k \in 0..n :
                   /\ k = n \/ s[n - k] \notin chars
                   /\ \A j \in (n - k + 1)..n : s[j] \in chars
    IN  SubSeq(s, 1, n - cut)

\* str.strip(chars)
strip(s, chars) == rstrip(lstrip(s, chars), chars)

(***************************************************************************)
(* werkzeug.utils.secure_filename, as download, delete and the name        *)
(* generator call it.                                                      *)
(***************************************************************************)
\* filename.replace(os.sep, " ")
replace_sep(s) == [i \in 1..Len(s) |-> IF s[i] = "/" THEN " " ELSE s[i]]

\* "_".join(filename.split()): the characters of the words, and one "_"
\* for each run of whitespace that lies between two words
split_join(s) ==
    LET n == Len(s)
        word(i) == s[i] \notin Whitespace
        keep(i) ==
            \/ word(i)
            \/ /\ i > 1 /\ word(i - 1)
               /\ \E j \in (i + 1)..n : word(j)
        kept == SelectSeq([i \in 1..n |-> i], keep)
    IN  [k \in 1..Len(kept) |-> IF word(kept[k]) THEN s[kept[k]] ELSE "_"]

\* the characters _filename_ascii_strip_re = [^A-Za-z0-9_.-] keeps
SafeChars == Range(UpperSeq) \cup Range(LowerSeq) \cup Range(DigitSeq) \cup {"_", ".", "-"}

IsSafeChar(c) == c \in SafeChars

\* _filename_ascii_strip_re.sub("", s)
ascii_strip(s) == SelectSeq(s, IsSafeChar)

\* a sanitizer that keeps the characters the regular expression removes
secure_filename_keep_unsafe(filename) ==
    strip(split_join(replace_sep(filename)), {".", "_"})

\* a sanitizer that leaves the path separator in place
secure_filename_keep_sep(filename) ==
    strip(SelectSeq(split_join(filename),
                    LAMBDA c : c \in SafeChars \cup {"/"}), {".", "_"})

secure_filename(filename) ==
    strip(ascii_strip(split_join(replace_sep(filename))), {".", "_"})

(***************************************************************************)
(* Configuration.                                                          *)
(***************************************************************************)
UPLOAD_FOLDER == <<"u","p","l","o","a","d","s">>

MAX_FILE_SIZE == 5 * 1024 * 1024

ALLOWED_EXTENSIONS ==
    { <<"p","n","g">>, <<"j","p","g">>, <<"j","p","e","g">>,
      <<"g","i","f">>, <<"p","d","f">> }

DANGEROUS_EXTENSIONS ==
    { <<"e","x","e">>, <<"s","h">>, <<"b","a","t">>, <<"c","m","d">>,
      <<"c","o","m">>, <<"p","i","f">>, <<"s","c","r">>, <<"v","b","s">>,
      <<"j","s">> }

(***************************************************************************)
(* Helper functions.                                                       *)
(***************************************************************************)
\* an extension policy that compares the extension as it was typed
allowed_file_case_sensitive(filename) ==
    IF ~has_dot(filename) THEN FALSE
    ELSE LET ext == rsplit_tail(filename)
         IN  IF ext \in DANGEROUS_EXTENSIONS THEN FALSE
             ELSE ext \in ALLOWED_EXTENSIONS

allowed_file(filename) ==
    IF ~has_dot(filename) THEN FALSE
    ELSE LET ext == lower(rsplit_tail(filename))
         IN  IF ext \in DANGEROUS_EXTENSIONS THEN FALSE
             ELSE ext \in ALLOWED_EXTENSIONS

\* a name generator that leaves the random identifier out of the name
generate_unique_filename_no_id(original_filename, unique_id, timestamp) ==
    LET ext == IF has_dot(original_filename)
               THEN lower(rsplit_tail(original_filename)) ELSE <<>>
        name == IF has_dot(original_filename)
                THEN rsplit_head(original_filename) ELSE original_filename
        safe_name == secure_filename(name)
    IN  <<"0","0","0","0","0","0","0","0">> \o <<"_">> \o timestamp \o <<"_">>
            \o safe_name \o <<".">> \o ext

\* a name generator that does not sanitize the base part
generate_unique_filename_raw(original_filename, unique_id, timestamp) ==
    LET ext == IF has_dot(original_filename)
               THEN lower(rsplit_tail(original_filename)) ELSE <<>>
        name == IF has_dot(original_filename)
                THEN rsplit_head(original_filename) ELSE original_filename
    IN  unique_id \o <<"_">> \o timestamp \o <<"_">> \o name \o <<".">> \o ext

\* unique_id is str(uuid.uuid4())[:8], timestamp is
\* datetime.now().strftime("%Y%m%d_%H%M%S")
generate_unique_filename(original_filename, unique_id, timestamp) ==
    LET ext == IF has_dot(original_filename)
               THEN lower(rsplit_tail(original_filename)) ELSE <<>>
        name == IF has_dot(original_filename)
                THEN rsplit_head(original_filename) ELSE original_filename
        safe_name == secure_filename(name)
    IN  unique_id \o <<"_">> \o timestamp \o <<"_">> \o safe_name \o <<".">> \o ext


(***************************************************************************)
(* Inputs and environment.                                                 *)
(***************************************************************************)
\* str(uuid.uuid4())[:8]: eight hexadecimal digits
uuid_prefix(k) == [i \in 1..8 |-> HexSeq[(k % 16) + 1]]

Uuids == {uuid_prefix(k) : k \in 0..(NumUuids - 1)}

\* datetime.now().strftime("%Y%m%d_%H%M%S") at second s of 2024-11-07 12:00
strftime(s) ==
    <<"2","0","2","4","1","1","0","7","_","1","2","0","0">>
        \o <<DigitSeq[(s \div 10) + 1], DigitSeq[(s % 10) + 1]>>

\* two uploads read the clock within the same second or in different ones
Timestamps == {strftime(0), strftime(1)}

\* the bytes of a file: what they are, and how many
Contents == {"A", "B"}

NoPayload == [data |-> "", size |-> 0]

\* the files sent to /upload: two of the largest size allowed, one a byte
\* larger
Payloads ==
    [data : Contents, size : {MAX_FILE_SIZE}]
        \cup {[data |-> "A", size |-> MAX_FILE_SIZE + 1]}

\* the working directory of the process, which realpath resolves against
Cwd == <<"/","d","a","t","a">>

\* files outside the upload folder: one in a sibling directory whose path
\* has the folder's path as a string prefix, one elsewhere
SiblingFile == Cwd \o <<"/">> \o UPLOAD_FOLDER \o <<"2","/","x">>

PasswdFile == <<"/","e","t","c","/","p","a","s","s","w","d">>

Outside ==
    (SiblingFile :> [data |-> "sibling", size |-> 1])
        @@ (PasswdFile :> [data |-> "passwd", size |-> 1])

\* original filenames sent to /upload: no name, no extension, a dangerous
\* extension, an unknown one, and two allowed ones, in upper case and after
\* a directory part, whose base part has dots inside
Name_a_b_png == <<"a",".",".","b",".","p","n","g">>

UploadNames ==
    { <<>>,
      <<"a">>,
      <<"a",".","e","x","e">>,
      <<"a",".","t","x","t">>,
      <<"a",".",".","b",".","P","N","G">>,
      <<".",".","/">> \o Name_a_b_png }

\* a storage name that no upload returns: its identifier is not drawn
AbsentName ==
    generate_unique_filename(Name_a_b_png, uuid_prefix(15), strftime(0))

\* names a client may ask for that no upload returned
FreeNames ==
    { <<".",".">>, <<"x">>, <<"e","t","c","/","p","a","s","s","w","d">>,
      AbsentName }

\* what a client may put in front of a name
Prefixes == { <<>>, <<".",".","/">>, <<"/">> }

LinkNames == { <<"x">> }

Workers == {"w1", "w2"}

\* every name an upload of UploadNames can be stored under
StorageNames ==
    {generate_unique_filename(f, u, t) :
        f \in {g \in UploadNames : allowed_file(g)}, u \in Uuids, t \in Timestamps}

\* every name a download or a delete of the model can be asked for
RequestNames ==
    {pre \o n : pre \in Prefixes, n \in StorageNames \cup FreeNames \cup LinkNames}

\* secure_filename of the names of RequestNames, computed once
SanitizedNames == [n \in RequestNames |-> secure_filename(n)]

\* filename = secure_filename(filename), as download and delete begin
Sanitized(name) ==
    IF name \in RequestNames THEN SanitizedNames[name] ELSE secure_filename(name)

(***************************************************************************)
(* State.                                                                  *)
(*   uploads_dir  the regular files of the upload folder: name -> bytes    *)
(*   symlinks     the symbolic links of the upload folder: name -> target  *)
(*   inflight     per worker thread, the request it is in the middle of    *)
(*   last         the latest request and the response it was given         *)
(*   live         the names returned by a successful upload and not        *)
(*                reported removed by a later successful delete            *)
(*   uploaded     for each of those names, the bytes of the latest upload  *)
(*                that returned it                                         *)
(***************************************************************************)
VARIABLES uploads_dir, symlinks, inflight, last, live, uploaded

vars == <<uploads_dir, symlinks, inflight, last, live, uploaded>>

Idle == [op |-> "idle", name |-> <<>>, filename |-> <<>>]

NoRequest ==
    [op |-> "none", name |-> <<>>, payload |-> NoPayload, unique_id |-> <<>>,
     timestamp |-> <<>>, status |-> 0, error |-> "", saved_as |-> <<>>,
     filename |-> <<>>, body |-> NoPayload, listing |-> {}, total_files |-> 0]

\* a response with no other field than its status and its error
Response(op, name, status, error) ==
    [NoRequest EXCEPT !.op = op, !.name = name, !.status = status, !.error = error]

\* a function without one of its arguments
Without(f, x) == [y \in (DOMAIN f) \ {x} |-> f[y]]

\* a function with one argument set
With(f, x, v) == [y \in (DOMAIN f) \cup {x} |-> IF y = x THEN v ELSE f[y]]

Init ==
    /\ uploads_dir = <<>>
    /\ symlinks = <<>>
    /\ inflight = [w \in Workers |-> Idle]
    /\ last = NoRequest
    /\ live = {}
    /\ uploaded = <<>>

(***************************************************************************)
(* The file system calls of the handlers.                                  *)
(***************************************************************************)
upload_folder_real == Cwd \o <<"/">> \o UPLOAD_FOLDER

\* os.path.realpath(os.path.join(UPLOAD_FOLDER, filename)) of a sanitized
\* filename: the folder itself for the empty name, the target for a link
realpath(links, filename) ==
    IF filename = <<>> THEN upload_folder_real
    ELSE IF filename \in DOMAIN links THEN links[filename]
    ELSE upload_folder_real \o <<"/">> \o filename

\* real_path.startswith(upload_folder_real)
contained(links, filename) ==
    startswith(realpath(links, filename), upload_folder_real)

\* os.path.exists(filepath), which follows links and holds of a directory
path_exists(dir, links, filename) ==
    \/ filename = <<>>
    \/ filename \in DOMAIN dir
    \/ filename \in DOMAIN links /\ links[filename] \in DOMAIN Outside

\* os.path.isfile(filepath), which follows links
isfile(dir, links, filename) ==
    \/ filename \in DOMAIN dir
    \/ filename \in DOMAIN links /\ links[filename] \in DOMAIN Outside

\* send_file(filepath, as_attachment=True): the bytes, or the exception of
\* opening a directory or a missing file, which Flask answers with 500
send_file(dir, links, op, name, filename) ==
    IF filename \in DOMAIN dir
    THEN [Response(op, name, 200, "") EXCEPT !.filename = filename,
                                             !.body = dir[filename]]
    ELSE IF filename \in DOMAIN links /\ links[filename] \in DOMAIN Outside
    THEN [Response(op, name, 200, "") EXCEPT !.filename = filename,
                                             !.body = Outside[links[filename]]]
    ELSE [Response(op, name, 500, "InternalError") EXCEPT !.filename = filename]

\* whether os.remove(filepath) returns: it raises on a directory and on a
\* missing file
remove_ok(dir, links, filename) ==
    filename \in DOMAIN dir \/ filename \in DOMAIN links

\* an os.remove that returns and leaves the file in place
remove_file_noop(dir, filename) == dir

\* the regular files after os.remove(filepath)
remove_file(dir, filename) ==
    IF filename \in DOMAIN dir THEN Without(dir, filename) ELSE dir

\* the links after os.remove(filepath), which removes a link, not its target
remove_link(links, filename) ==
    IF filename \in DOMAIN links THEN Without(links, filename) ELSE links

\* file.save(filepath): open for writing, truncate, write
save_file(dir, filename, payload) == With(dir, filename, payload)

\* the checks of download and delete on the sanitized filename, in order
access_check(dir, links, filename) ==
    IF ~contained(links, filename) THEN "AccessDenied"
    ELSE IF ~path_exists(dir, links, filename) THEN "NotFound"
    ELSE "pass"

ErrorStatus(error) == IF error = "AccessDenied" THEN 403 ELSE 404

(***************************************************************************)
(* POST /upload                                                            *)
(***************************************************************************)
\* a size check that lets every size through
too_large_never(file_size) == FALSE

\* file_size > app.config["MAX_FILE_SIZE"]
too_large(file_size) == file_size > MAX_FILE_SIZE

\* 'file' not in request.files
UploadNoFile ==
    /\ last' = Response("upload", <<>>, 400, "NoFileProvided")
    /\ UNCHANGED <<uploads_dir, symlinks, inflight, live, uploaded>>

\* the request carries a file named f with the bytes p
Upload(f, p) ==
    LET request == [NoRequest EXCEPT !.op = "upload", !.name = f, !.payload = p]
        reject(status, error) ==
            /\ last' = [request EXCEPT !.status = status, !.error = error]
            /\ UNCHANGED <<uploads_dir, live, uploaded>>
    IN  /\ UNCHANGED <<symlinks, inflight>>
        /\ IF f = <<>> THEN reject(400, "EmptyFilename")
           ELSE IF too_large(p.size) THEN reject(413, "SizeExceeded")
           ELSE IF ~allowed_file(f) THEN reject(400, "TypeNotAllowed")
           ELSE \E unique_id \in Uuids, timestamp \in Timestamps :
                \E unique_filename \in
                        {generate_unique_filename(f, unique_id, timestamp)} :
                      /\ \/ unique_filename \in DOMAIN uploads_dir
                         \/ Cardinality(DOMAIN uploads_dir) < MaxFiles
                      /\ uploads_dir' = save_file(uploads_dir, unique_filename, p)
                      /\ last' = [request EXCEPT !.status = 200,
                                                 !.unique_id = unique_id,
                                                 !.timestamp = timestamp,
                                                 !.saved_as = unique_filename]
                      /\ live' = live \cup {unique_filename}
                      /\ uploaded' = With(uploaded, unique_filename, p)

(***************************************************************************)
(* GET /download/<filename>                                                *)
(***************************************************************************)
\* the answer of a failed check
Denied(op, name, filename, error) ==
    [Response(op, name, ErrorStatus(error), error) EXCEPT !.filename = filename]

\* the answer of download to a request for name
download_response(dir, links, name) ==
    LET filename == Sanitized(name)
        check == access_check(dir, links, filename)
    IN  IF check # "pass"
        THEN Denied("download", name, filename, check)
        ELSE send_file(dir, links, "download", name, filename)

Download(name) ==
    /\ last' = download_response(uploads_dir, symlinks, name)
    /\ UNCHANGED <<uploads_dir, symlinks, inflight, live, uploaded>>

(***************************************************************************)
(* DELETE /delete/<filename>                                               *)
(***************************************************************************)
\* the try block of delete: os.remove, and the answer to either outcome
TryRemove(name, filename) ==
    IF remove_ok(uploads_dir, symlinks, filename)
    THEN /\ uploads_dir' = remove_file(uploads_dir, filename)
         /\ symlinks' = remove_link(symlinks, filename)
         /\ last' = [Response("delete", name, 200, "") EXCEPT !.filename = filename]
         /\ live' = live \ {filename}
         /\ uploaded' = IF filename \in DOMAIN uploaded
                        THEN Without(uploaded, filename) ELSE uploaded
    ELSE /\ last' = [Response("delete", name, 500, "DeleteFailed")
                        EXCEPT !.filename = filename]
         /\ UNCHANGED <<uploads_dir, symlinks, live, uploaded>>

Delete(name) ==
    \E filename \in {Sanitized(name)} :
    \E check \in {access_check(uploads_dir, symlinks, filename)} :
        /\ UNCHANGED inflight
        /\ IF check # "pass"
           THEN /\ last' = Denied("delete", name, filename, check)
                /\ UNCHANGED <<uploads_dir, symlinks, live, uploaded>>
           ELSE TryRemove(name, filename)

(***************************************************************************)
(* GET /files                                                              *)
(***************************************************************************)
\* os.listdir(UPLOAD_FOLDER) without the entries that are not files
files_list(dir, links) ==
    {n \in (DOMAIN dir) \cup (DOMAIN links) : isfile(dir, links, n)}

Files ==
    /\ last' = [Response("list", <<>>, 200, "")
                   EXCEPT !.listing = files_list(uploads_dir, symlinks),
                          !.total_files = Cardinality(files_list(uploads_dir, symlinks))]
    /\ UNCHANGED <<uploads_dir, symlinks, inflight, live, uploaded>>

(***************************************************************************)
(* One request at a time.                                                  *)
(***************************************************************************)
ClientNames ==
    {pre \o n : pre \in Prefixes,
                n \in (DOMAIN uploads_dir) \cup (DOMAIN symlinks) \cup FreeNames}

Next ==
    \/ UploadNoFile
    \/ \E f \in UploadNames, p \in Payloads : Upload(f, p)
    \/ \E name \in ClientNames : Download(name)
    \/ \E name \in ClientNames : Delete(name)
    \/ Files

Spec == Init /\ [][Next]_vars

(***************************************************************************)
(* The upload folder with a symbolic link in it.  The handlers create      *)
(* none; realpath is there for the ones something else has put there.      *)
(***************************************************************************)
PlantSymlink(link, target) ==
    /\ link \notin DOMAIN uploads_dir
    /\ link \notin DOMAIN symlinks
    /\ symlinks' = With(symlinks, link, target)
    /\ last' = [NoRequest EXCEPT !.op = "symlink", !.name = link]
    /\ UNCHANGED <<uploads_dir, inflight, live, uploaded>>

NextEnv ==
    \/ Next
    \/ \E link \in LinkNames, target \in DOMAIN Outside : PlantSymlink(link, target)

SpecEnv == Init /\ [][NextEnv]_vars

(***************************************************************************)
(* Requests served by two threads: a download and a delete are each two    *)
(* steps, the checks up to os.path.exists and then send_file or os.remove, *)
(* and the steps of the two threads interleave.                            *)
(***************************************************************************)
DownloadCheck(w, name) ==
    \E filename \in {Sanitized(name)} :
    \E check \in {access_check(uploads_dir, symlinks, filename)} :
        /\ inflight[w] = Idle
        /\ IF check # "pass"
           THEN /\ last' = Denied("download", name, filename, check)
                /\ UNCHANGED inflight
           ELSE /\ inflight' = [inflight EXCEPT ![w] =
                        [op |-> "download", name |-> name, filename |-> filename]]
                /\ UNCHANGED last
        /\ UNCHANGED <<uploads_dir, symlinks, live, uploaded>>

DownloadSend(w) ==
    /\ inflight[w].op = "download"
    /\ last' = send_file(uploads_dir, symlinks, "download",
                         inflight[w].name, inflight[w].filename)
    /\ inflight' = [inflight EXCEPT ![w] = Idle]
    /\ UNCHANGED <<uploads_dir, symlinks, live, uploaded>>

DeleteCheck(w, name) ==
    \E filename \in {Sanitized(name)} :
    \E check \in {access_check(uploads_dir, symlinks, filename)} :
        /\ inflight[w] = Idle
        /\ IF check # "pass"
           THEN /\ last' = Denied("delete", name, filename, check)
                /\ UNCHANGED inflight
           ELSE /\ inflight' = [inflight EXCEPT ![w] =
                        [op |-> "delete", name |-> name, filename |-> filename]]
                /\ UNCHANGED last
        /\ UNCHANGED <<uploads_dir, symlinks, live, uploaded>>

DeleteRemove(w) ==
    /\ inflight[w].op = "delete"
    /\ TryRemove(inflight[w].name, inflight[w].filename)
    /\ inflight' = [inflight EXCEPT ![w] = Idle]

\* the threads are asked for stored names and for one that is not stored
ConcNames == (DOMAIN uploads_dir) \cup {AbsentName}

NextConc ==
    \/ \E p \in {q \in Payloads : q.data = "A"} : Upload(Name_a_b_png, p)
    \/ \E w \in Workers, name \in ConcNames : DownloadCheck(w, name)
    \/ \E w \in Workers : DownloadSend(w)
    \/ \E w \in Workers, name \in ConcNames : DeleteCheck(w, name)
    \/ \E w \in Workers : DeleteRemove(w)

SpecConc == Init /\ [][NextConc]_vars

(***************************************************************************)
(* One upload into the empty folder, of a filename drawn from every base   *)
(* part of at most MaxNameLen characters followed by a suffix.             *)
(***************************************************************************)
NameAlphabet == {"a", ".", "_", " ", "/", "\\"}

Suffixes ==
    { <<>>, <<".","p","n","g">>, <<".","P","N","G">>, <<".","e","x","e">> }

BaseNames == UNION {[1..k -> NameAlphabet] : k \in 0..MaxNameLen}

WideNames == {b \o e : b \in BaseNames, e \in Suffixes}

InitNames ==
    /\ uploads_dir = <<>>
    /\ symlinks = <<>>
    /\ inflight = [w \in Workers |-> Idle]
    /\ last \in {[NoRequest EXCEPT !.op = "draw", !.name = f] : f \in WideNames}
    /\ live = {}
    /\ uploaded = <<>>

UploadDrawn ==
    /\ last.op = "draw"
    /\ \E p \in Payloads : Upload(last.name, p)

NextNames == UploadDrawn

SpecNames == InitNames /\ [][NextNames]_vars

(***************************************************************************)
(* Properties.                                                             *)
(***************************************************************************)
\* t occurs in s
HasSubseq(s, t) ==
    \E i \in 1..(Len(s) - Len(t) + 1) : SubSeq(s, i, i + Len(t) - 1) = t

\* a "../" sequence or an absolute-path-like prefix
HasTraversal(name) == HasSubseq(name, <<".",".","/">>) \/ startswith(name, <<"/">>)

HasDotDot(s) == HasSubseq(s, <<".",".">>)

HasSeparator(s) == "/" \in Range(s) \/ "\\" \in Range(s)

\* the canonical path lies under the canonical root at a directory boundary
ProperlyContained(links, filename) ==
    \/ realpath(links, filename) = upload_folder_real
    \/ startswith(realpath(links, filename), upload_folder_real \o <<"/">>)

\* the extension policy, read off the filename: the lower-cased text after
\* the last "." is in the allow-set and not in the deny-set
Acceptable(name) ==
    \E i \in 1..Len(name) :
        /\ name[i] = "."
        /\ \A j \in (i + 1)..Len(name) : name[j] # "."
        /\ lower(SubSeq(name, i + 1, Len(name))) \in
               ALLOWED_EXTENSIONS \ DANGEROUS_EXTENSIONS

\* the identifier and the timestamp a storage name begins with
IdOf(n) == SubSeq(n, 1, 8)

StampOf(n) == SubSeq(n, 10, 24)

\* C1 as stated: a download or a delete of a name with a "../" sequence or
\* an absolute-path-like prefix is answered AccessDenied.
C1_TraversalDenied ==
    (last.op \in {"download", "delete"} /\ HasTraversal(last.name))
        => last.error = "AccessDenied"

\* C1 as amended: in an upload folder that holds only uploaded files, a
\* download or a delete of a name with a "../" sequence or an
\* absolute-path-like prefix is never answered AccessDenied: it acts on the
\* sanitized name, which has no separator and no leading dot.  The answer is
\* NotFound, nothing changed, if that name is not empty and no stored file
\* has it; the stored file of that name is sent, or removed and no other, if
\* there is one; and if that name is empty the folder itself is the target,
\* and the request ends in an internal error or DeleteFailed, nothing
\* changed.
C1_TraversalSanitized ==
    [][ (last'.op \in {"download", "delete"} /\ HasTraversal(last'.name)) =>
        \A fn \in {Sanitized(last'.name)} :
            /\ last'.filename = fn
            /\ last'.error # "AccessDenied"
            /\ ~HasSeparator(fn)
            /\ fn # <<>> => fn[1] # "."
            /\ (fn # <<>> /\ fn \notin DOMAIN uploads_dir) =>
                   /\ last'.error = "NotFound"
                   /\ uploads_dir' = uploads_dir
            /\ fn \in DOMAIN uploads_dir =>
                   /\ last'.status = 200
                   /\ last'.op = "download" =>
                          /\ last'.body = uploads_dir[fn]
                          /\ uploads_dir' = uploads_dir
                   /\ last'.op = "delete" =>
                          uploads_dir' = Without(uploads_dir, fn)
            /\ fn = <<>> =>
                   /\ last'.status = 500
                   /\ last'.error = (IF last'.op = "download"
                                     THEN "InternalError" ELSE "DeleteFailed")
                   /\ uploads_dir' = uploads_dir ]_vars

\* C1 witness: a name with a traversal prefix was asked for and a stored
\* file was sent.
C1_Witness ==
    /\ last.op = "download"
    /\ HasTraversal(last.name)
    /\ last.status = 200
    /\ last.filename \in DOMAIN uploads_dir

\* C2 as stated: a download or a delete whose canonical path is not under
\* the canonical root at a directory boundary is answered AccessDenied.
C2_SiblingDenied ==
    [][ ( /\ last'.op \in {"download", "delete"}
          /\ ~ProperlyContained(symlinks, last'.filename) )
        => last'.error = "AccessDenied" ]_vars

\* C3 as stated: an upload whose size exceeds the maximum is answered
\* SizeExceeded whatever its filename.
C3_OversizeAlwaysSizeExceeded ==
    (last.op = "upload" /\ last.payload.size > MAX_FILE_SIZE)
        => last.error = "SizeExceeded"

\* C3 as amended: an upload whose size exceeds the maximum leaves the stored
\* files as they were, and is answered SizeExceeded whatever its filename,
\* unless the filename is empty: that one is answered EmptyFilename.
C3_OversizeRejectedBeforeWrite ==
    [][ (last'.op = "upload" /\ last'.payload.size > MAX_FILE_SIZE) =>
            /\ uploads_dir' = uploads_dir
            /\ last'.name # <<>> =>
                   last'.status = 413 /\ last'.error = "SizeExceeded"
            /\ last'.name = <<>> =>
                   last'.status = 400 /\ last'.error = "EmptyFilename" ]_vars

\* C3 witness: a file of a rejected type and too large was answered
\* SizeExceeded while files were stored.
C3_Witness ==
    /\ last.op = "upload"
    /\ last.payload.size > MAX_FILE_SIZE
    /\ ~allowed_file(last.name)
    /\ last.error = "SizeExceeded"
    /\ uploads_dir # <<>>

\* C4 as stated: an upload within the size limit is accepted exactly when
\* its extension is acceptable, and is otherwise answered TypeNotAllowed
\* with nothing stored.
C4_AcceptedIffAcceptable ==
    (last.op = "upload" /\ last.payload # NoPayload
        /\ last.payload.size <= MAX_FILE_SIZE) =>
            /\ last.status = 200 <=> Acceptable(last.name)
            /\ ~Acceptable(last.name) =>
                   last.error = "TypeNotAllowed" /\ uploads_dir = <<>>

\* C4 as amended: an upload within the size limit with a filename that is
\* not empty is accepted exactly when the filename has a "." and the
\* lower-cased text after the last "." is in the allow-set and not in the
\* deny-set, and is otherwise answered TypeNotAllowed with nothing stored;
\* with an empty filename it is answered EmptyFilename, nothing stored.
C4_AcceptedIffAcceptableNonEmpty ==
    (last.op = "upload" /\ last.payload # NoPayload
        /\ last.payload.size <= MAX_FILE_SIZE) =>
            /\ last.status = 200 <=> Acceptable(last.name)
            /\ last.status = 200 =>
                   uploads_dir = (last.saved_as :> last.payload)
            /\ (~Acceptable(last.name) /\ last.name # <<>>) =>
                   last.error = "TypeNotAllowed" /\ uploads_dir = <<>>
            /\ last.name = <<>> =>
                   last.error = "EmptyFilename" /\ uploads_dir = <<>>

\* C4 witness: a filename with a separator and an upper-case allowed
\* extension was accepted.
C4_Witness ==
    /\ last.op = "upload"
    /\ last.status = 200
    /\ HasSeparator(last.name)
    /\ rsplit_tail(last.name) = <<"P","N","G">>

C7_DeleteAbsentNotFound ==
    [][ (last'.op = "delete" /\ Sanitized(last'.name) \notin DOMAIN uploads_dir)
        => (last'.error = "NotFound" /\ uploads_dir' = uploads_dir) ]_vars

\* C8 as stated: a download or a delete of a storage name, whatever it
\* interleaves with, never ends in an internal error or in DeleteFailed.
C8_RaceEndsNotFound ==
    (last.op \in {"download", "delete"} /\ last.filename # <<>>)
        => last.error \notin {"InternalError", "DeleteFailed"}

\* C9 as stated: the storage name of an accepted upload is not empty and
\* has no path separator and no ".." in it.
C9_NoDotDot ==
    (last.op = "upload" /\ last.status = 200) =>
        /\ last.saved_as # <<>>
        /\ ~HasSeparator(last.saved_as)
        /\ ~HasDotDot(last.saved_as)

\* C9 as amended: the storage name of an accepted upload is not empty, has
\* no path separator, begins with the identifier and not with a dot, and is
\* what sanitizing it gives: it is one path component and neither "." nor
\* "..", though dots that follow each other inside the base part stay.
C9_OneSafeComponent ==
    (last.op = "upload" /\ last.status = 200) =>
        /\ last.saved_as # <<>>
        /\ ~HasSeparator(last.saved_as)
        /\ IdOf(last.saved_as) = last.unique_id
        /\ last.saved_as[1] # "."
        /\ secure_filename(last.saved_as) = last.saved_as

\* C9 witness: a filename whose base part has a separator and ".." in it
\* was accepted.
C9_Witness ==
    /\ last.op = "upload"
    /\ last.status = 200
    /\ HasSeparator(rsplit_head(last.name))
    /\ HasDotDot(rsplit_head(last.name))

\* C10: the files the listing shows are the names returned by an accepted
\* upload and not reported removed by a later delete, and the answer to a
\* list request shows those names and their number.
C10_ListIsLive ==
    /\ files_list(uploads_dir, symlinks) = live
    /\ last.op = "list" =>
           /\ last.listing = live
           /\ last.total_files = Cardinality(live)
    /\ (last.op = "delete" /\ last.status = 200) => last.filename \notin live

\* C10 witness: after two uploads and one delete the listing shows the one
\* file that remains.
C10_Witness ==
    /\ last.op = "delete"
    /\ last.status = 200
    /\ Cardinality(live) = MaxFiles - 1
    /\ files_list(uploads_dir, symlinks) = live

=============================================================================
